---- MODULE Spec2Model ----
(***************************************************************************)
(* score-rs: free-distance optimisation with an altitude-loss rule.        *)
(*                                                                         *)
(* The model follows src/src/free.rs, the module lib.rs exports and the    *)
(* tests call.  A Rust Vec is a TLA+ sequence; the code's indices are      *)
(* 0-based, so element i of a Vec v is At(v, i) = v[i + 1].  Fix indices   *)
(* stored in paths, cells, candidates and stop sets are the code's 0-based *)
(* indices.                                                                *)
(*                                                                         *)
(* Distances are f32 kilometres in the code.  Here the projected points    *)
(* lie on integer coordinates chosen so that every Euclidean distance is   *)
(* an integer, which makes FlatPoint::distance exact.  Altitudes stay      *)
(* well inside i16, so the i16 subtraction of the altitude rule is exact.  *)
(***************************************************************************)
EXTENDS Integers, Sequences, FiniteSets, TLC

(* ------------------------------ bounds -------------------------------- *)

\* longest route of the exhaustive input family
MaxN == 3
\* largest number of legs of the exhaustive input family
MaxLegs == 3

(* ------------------------- program constants -------------------------- *)

\* the altitude rule's threshold (free.rs:221, 252, 445, 528)
AltitudeLimit == 1000
\* the penalty of a non-compliant finish (free.rs:453)
Penalty == 100000

(* ------------------------------ inputs -------------------------------- *)

\* Projected positions.  All pairwise distances are integers:
\* (0,0)-(6,0) = 6, (3,4)-(3,-4) = 8, (3,0) is 3 or 4 away from the rest,
\* every other pair is 5 apart.
Points == { <<0, 0>>, <<6, 0>>, <<3, 4>>, <<3, -4>>, <<3, 0>> }

\* 1500 - 500 = 1000 is the largest loss the rule allows, 1500 - 0 breaks it.
Altitudes == { 0, 500, 1500 }

Fixes == [ x : {p[1] : p \in Points}, y : {p[2] : p \in Points}, altitude : Altitudes ]

PointFixes == { f \in Fixes : <<f.x, f.y>> \in Points }

\* break_at: 0.0 disables the early abort (lib.rs:32, tests/free.rs:51)
BreakAts == { 0, 7, 1000 }

GeneralInputs ==
    { [route |-> r, legs |-> l] :
        r \in UNION { [1..n -> PointFixes] : n \in 0..MaxN }, l \in 1..MaxLegs }

\* A fix on the line y = 0
LineFix(x, a) == [ x |-> x, y |-> 0, altitude |-> a ]

LineRoute(xs, alts) == [ i \in 1..Len(xs) |-> LineFix(xs[i], alts[i]) ]

\* A track that turns back and forth on a line, flown at every altitude
\* profile: long enough for the cache of the main loop to rule candidates out
TrackPositions == << 6, 4, 6, 5, 6, 1 >>

TrackInputs ==
    { [route |-> LineRoute(TrackPositions, alts), legs |-> l] :
        alts \in [1..Len(TrackPositions) -> Altitudes], l \in 1..MaxLegs }

\* Two tracks with a fixed altitude profile on which several start candidates
\* come up for a search one after the other
ResolvedInputs ==
    { [route |-> LineRoute(<< 12, 1, 11, 0, 14, 2, 14 >>,
                           << 1800, 1800, 1500, 1800, 500, 500, 0 >>), legs |-> 2],
      [route |-> LineRoute(<< 9, 2, 9, 3, 7, 13, 20, 4, 4 >>,
                           << 0, 1800, 0, 1500, 0, 1500, 0, 500, 0 >>), legs |-> 2] }

\* tests/free.rs:10
DegenerateLegs == 6

\* DegenerateLegs + 1 identical fixes
DegenerateInputs ==
    { [route |-> [ i \in 1..(DegenerateLegs + 1) |-> f ], legs |-> DegenerateLegs] :
        f \in PointFixes }

\* longest route of the descending input family
MaxDropLen == 5
\* the total altitude loss of the descending input family: one and a half
\* times what the rule allows
TotalDrop == AltitudeLimit + AltitudeLimit \div 2

\* n evenly spaced fixes that descend by TotalDrop from the first to the last
DropRoute(n) ==
    [ i \in 1..n |-> LineFix(i - 1, TotalDrop - (TotalDrop * (i - 1)) \div (n - 1)) ]

DropInputs ==
    { [route |-> DropRoute(n), legs |-> l] : n \in 2..MaxDropLen, l \in 1..MaxLegs }

\* A track of two places, each logged twice in a row, flown at every altitude
\* profile: the distance between the places is also the sum of the distances
\* between consecutive fixes
PairedPositions == << 0, 0, 5, 5 >>

PairedInputs ==
    { [route |-> LineRoute(PairedPositions, alts), legs |-> l] :
        alts \in [1..Len(PairedPositions) -> Altitudes], l \in 1..MaxLegs }

Inputs == GeneralInputs \cup TrackInputs \cup ResolvedInputs \cup DegenerateInputs
              \cup DropInputs \cup PairedInputs

(* ------------------------------ helpers ------------------------------- *)

At(v, i) == v[i + 1]

\* TLC keeps [i \in S |-> e] unevaluated and evaluates e at every application;
\* Eval(f) is f, turned into its table of values once
Eval(f) == f @@ << >>

None == << >>
Some(v) == << v >>
IsSome(o) == o # << >>
Unwrap(o) == o[1]

Reverse(s) == [ i \in 1..Len(s) |-> s[Len(s) + 1 - i] ]

RECURSIVE SumSeq(_)
SumSeq(s) == IF s = << >> THEN 0 ELSE Head(s) + SumSeq(Tail(s))

\* the exact square root of a perfect square
Sqrt(m) == CHOOSE r \in 0..m : r * r = m

\* FlatPoint::distance (flat_projection crate): Euclidean distance of two
\* projected points
FlatDistance(p, q) == Sqrt((p.x - q.x) * (p.x - q.x) + (p.y - q.y) * (p.y - q.y))

\* Iterator::max_by_key(|c| OrdVar::new_checked(c.distance)): of several
\* maximal elements Rust returns the last one.  None on an empty iterator.
\* max_by_key, had it returned the first of several maximal elements
max_by_key_first(seq) ==
    LET s == Eval(seq)
    IN  IF s = << >> THEN None
        ELSE Some(s[CHOOSE i \in 1..Len(s) :
                      \A j \in 1..Len(s) :
                          /\ s[j].distance <= s[i].distance
                          /\ (j < i => s[j].distance < s[i].distance)])

max_by_key(seq) ==
    LET s == Eval(seq)
    IN  IF s = << >> THEN None
        ELSE Some(s[CHOOSE i \in 1..Len(s) :
                      \A j \in 1..Len(s) :
                          /\ s[j].distance <= s[i].distance
                          /\ (j > i => s[j].distance < s[i].distance)])

\* valid, had the comparison with the limit been the other way round
valid_flipped(route, start, stop) ==
    At(route, start).altitude - At(route, stop).altitude >= AltitudeLimit

\* valid, had it subtracted the start altitude from the finish altitude
valid_swapped(route, start, stop) ==
    At(route, stop).altitude - At(route, start).altitude <= AltitudeLimit

\* Valid::valid / the inline checks of free.rs: the altitude rule
valid(route, start, stop) ==
    At(route, start).altitude - At(route, stop).altitude <= AltitudeLimit

\* vincenty_distance: 0 for coincident fixes (vincenty.rs:36-38); otherwise
\* the ellipsoidal length, which differs from the flat projection's: the
\* model keeps the two metrics apart by one unit per leg.
vincenty_distance(fix1, fix2) ==
    LET d == FlatDistance(fix1, fix2) IN IF d = 0 THEN 0 ELSE d + 1

\* calculate_distance: the Vincenty length of a path
calculate_distance(points, path) ==
    SumSeq([ i \in 1..(Len(path) - 1) |->
               vincenty_distance(At(points, path[i]), At(points, path[i + 1])) ])

\* the planar length of a path (free.rs:274-278)
flat_cum_distance(points, path) ==
    SumSeq([ i \in 1..(Len(path) - 1) |->
               FlatDistance(At(points, path[i]), At(points, path[i + 1])) ])

\* half_dist_matrix: row i holds the distances from fix i to fixes i, i+1, ...
half_dist_matrix(flat_points) ==
    Eval([ i \in 1..Len(flat_points) |->
             Eval([ k \in 1..(Len(flat_points) - i + 1) |->
                      FlatDistance(flat_points[i], flat_points[i + k - 1]) ]) ])

(* ------------------------------- Graph -------------------------------- *)

\* first_layer, had it kept the index within the row as prev_index
first_layer_row_index(dist_matrix) ==
    Eval([ t \in 1..Len(dist_matrix) |->
             Unwrap(max_by_key(
                 [ k \in 1..Len(dist_matrix[t]) |->
                     [ prev_index |-> k - 1,
                       distance   |-> dist_matrix[t][k] ] ])) ])

\* the first layer of Graph::from_distance_matrix (free.rs:373-386)
first_layer(dist_matrix) ==
    Eval([ t \in 1..Len(dist_matrix) |->
             Unwrap(max_by_key(
                 [ k \in 1..Len(dist_matrix[t]) |->
                     [ prev_index |-> (k - 1) + (t - 1),
                       distance   |-> dist_matrix[t][k] ] ])) ])

\* first_layer_for_start, had it left the distance of a finish that lies too
\* far below the start as it is
first_layer_for_start_unpenalised(start_altitude, dist_matrix, points) ==
    Eval([ t \in 1..Len(dist_matrix) |->
             Unwrap(max_by_key(
                 [ k \in 1..Len(dist_matrix[t]) |->
                     [ prev_index |-> (k - 1) + (t - 1),
                       distance   |-> dist_matrix[t][k] ] ])) ])

\* the first layer of Graph::for_start_index (free.rs:436-460)
first_layer_for_start(start_altitude, dist_matrix, points) ==
    Eval([ t \in 1..Len(dist_matrix) |->
             Unwrap(max_by_key(
                 [ k \in 1..Len(dist_matrix[t]) |->
                     IF start_altitude - At(points, (k - 1) + (t - 1)).altitude
                            <= AltitudeLimit
                     THEN [ prev_index |-> (k - 1) + (t - 1),
                            distance   |-> dist_matrix[t][k] ]
                     ELSE [ prev_index |-> (k - 1) + (t - 1),
                            distance   |-> dist_matrix[t][k] - Penalty ] ])) ])

\* next_layer, had it kept the index within the row as prev_index
next_layer_row_index(dist_matrix, last_layer) ==
    Eval([ t \in 1..Len(dist_matrix) |->
             Unwrap(max_by_key(
                 [ k \in 1..Len(dist_matrix[t]) |->
                     [ prev_index |-> k - 1,
                       distance   |-> last_layer[(t - 1) + k].distance
                                          + dist_matrix[t][k] ] ])) ])

\* next_layer, had it zipped the row with the last layer from its first
\* cell, without skip(tp_index)
next_layer_unskipped(dist_matrix, last_layer) ==
    Eval([ t \in 1..Len(dist_matrix) |->
             Unwrap(max_by_key(
                 [ k \in 1..Len(dist_matrix[t]) |->
                     [ prev_index |-> (k - 1) + (t - 1),
                       distance   |-> last_layer[k].distance + dist_matrix[t][k] ] ])) ])

\* one higher layer (free.rs:392-411 and 476-494)
next_layer(dist_matrix, last_layer) ==
    Eval([ t \in 1..Len(dist_matrix) |->
             Unwrap(max_by_key(
                 [ k \in 1..Len(dist_matrix[t]) |->
                     [ prev_index |-> (k - 1) + (t - 1),
                       distance   |-> last_layer[(t - 1) + k].distance
                                          + dist_matrix[t][k] ] ])) ])

RECURSIVE push_layers(_, _, _)
push_layers(dist_matrix, g, legs) ==
    IF Len(g) >= legs THEN g
    ELSE push_layers(dist_matrix, Append(g, next_layer(dist_matrix, g[Len(g)])), legs)

from_distance_matrix(dist_matrix, legs) ==
    push_layers(dist_matrix, << first_layer(dist_matrix) >>, legs)

for_start_index(start_altitude, dist_matrix, points, legs) ==
    push_layers(dist_matrix,
                << first_layer_for_start(start_altitude, dist_matrix, points) >>, legs)

\* GraphIterator::next, collected: the index, then the back-pointers down
\* through all layers
\* graph_iterator, had it stopped one layer early
RECURSIVE graph_iterator_short(_, _, _)
graph_iterator_short(g, layer, index) ==
    IF layer <= 1 THEN << index >>
    ELSE << index >> \o graph_iterator_short(g, layer - 1,
                                             At(At(g, layer - 1), index).prev_index)

RECURSIVE graph_iterator(_, _, _)
graph_iterator(g, layer, index) ==
    IF layer = 0 THEN << index >>
    ELSE << index >> \o graph_iterator(g, layer - 1, At(At(g, layer - 1), index).prev_index)

\* the path of a top-layer cell, reversed when it runs backwards
\* (free.rs:512-521)
cell_path(g, index) ==
    LET path == graph_iterator(g, Len(g), index)
    IN  IF path[1] > path[Len(path)] THEN Reverse(path) ELSE path

\* every top-layer cell as an OptimizationResult
cell_results(g) ==
    Eval([ i \in 1..Len(g[Len(g)]) |->
             [ path |-> cell_path(g, i - 1), distance |-> g[Len(g)][i].distance ] ])

valid_result(points, r) == valid(points, r.path[1], r.path[Len(r.path)])

\* find_best_valid_solution, had it not filtered by the altitude rule
find_best_valid_solution_unfiltered(g, points) == max_by_key(cell_results(g))

\* Graph::find_best_valid_solution, before its final unwrap
find_best_valid_solution(g, points) ==
    max_by_key(SelectSeq(cell_results(g), LAMBDA r : valid_result(points, r)))

\* Graph::find_best_solution
find_best_solution(g) == max_by_key(cell_results(g))

(* ------------------------------ optimize ------------------------------ *)

VARIABLES
    route,              \* the fixes, already projected
    legs,
    break_at,
    pc,                 \* where optimize stands
    dist_matrix,
    graph,
    best_valid,
    start_candidates,
    start_window,
    minimum_stop_index,
    cache,
    iterations,
    result              \* what optimize returned

vars == << route, legs, break_at, pc, dist_matrix, graph, best_valid, start_candidates,
           start_window, minimum_stop_index, cache, iterations, result >>

Init ==
    /\ \E in \in Inputs : route = in.route /\ legs = in.legs
    /\ break_at \in BreakAts
    /\ pc = "start"
    /\ dist_matrix = << >>
    /\ graph = << >>
    /\ best_valid = None
    /\ start_candidates = << >>
    /\ start_window = None
    /\ minimum_stop_index = None
    /\ cache = << >>
    /\ iterations = 1
    /\ result = None

\* sort_by_key is stable and ascending: the sorted sequence of candidates
sort_by_key(s) ==
    LET before(a, b) == \/ a.distance < b.distance
                        \/ a.distance = b.distance /\ a.start_index < b.start_index
        rank(i) == Cardinality({ j \in 1..Len(s) : before(s[j], s[i]) }) + 1
    IN  Eval([ p \in 1..Len(s) |-> s[CHOOSE i \in 1..Len(s) : rank(i) = p] ])

\* initial_start_candidates, had the candidates been left in the order of
\* their cells
initial_start_candidates_unsorted(g, l, best_distance) ==
    SelectSeq(Eval([ i \in 1..Len(At(g, l - 1)) |->
                       [ distance    |-> At(g, l - 1)[i].distance,
                         start_index |-> i - 1 ] ]),
              LAMBDA c : c.distance > best_distance)

\* free.rs:44-53
initial_start_candidates(g, l, best_distance) ==
    sort_by_key(
        SelectSeq(Eval([ i \in 1..Len(At(g, l - 1)) |->
                           [ distance    |-> At(g, l - 1)[i].distance,
                             start_index |-> i - 1 ] ]),
                  LAMBDA c : c.distance > best_distance))

\* retain, had it kept the candidates that equal the best distance
retain_not_below(cands, best_distance) ==
    SelectSeq(cands, LAMBDA c : c.distance >= best_distance)

\* Vec::retain(|c| c.distance > best)
retain(cands, best_distance) == SelectSeq(cands, LAMBDA c : c.distance > best_distance)

\* EmptyRoute, had the empty route been answered with an empty path
EmptyRoute_empty_path ==
    /\ pc = "start"
    /\ route = << >>
    /\ result' = Some([ distance |-> 0, path |-> << >> ])
    /\ pc' = "done"
    /\ UNCHANGED << route, legs, break_at, dist_matrix, graph, best_valid, start_candidates,
                    start_window, minimum_stop_index, cache, iterations >>

\* free.rs:29: to_flat_points unwraps the centre of the route, which is None
\* for an empty route (flat.rs:18, 60-70)
EmptyRoute ==
    /\ pc = "start"
    /\ route = << >>
    /\ pc' = "panic"
    /\ UNCHANGED << route, legs, break_at, dist_matrix, graph, best_valid, start_candidates,
                    start_window, minimum_stop_index, cache, iterations, result >>

\* free.rs:29-53: matrix, unconstrained graph, seed solution, candidates
Seed ==
    /\ pc = "start"
    /\ route # << >>
    /\ LET dm   == half_dist_matrix(route)
           g    == from_distance_matrix(dm, legs)
           best == find_best_valid_solution(g, route)
       IN  /\ dist_matrix' = dm
           /\ graph' = g
           /\ best_valid' = best
           /\ IF IsSome(best)
              THEN /\ start_candidates' =
                          initial_start_candidates(g, legs, Unwrap(best).distance)
                   /\ pc' = "seeded"
              ELSE /\ start_candidates' = << >>
                   /\ pc' = "panic"
    /\ UNCHANGED << route, legs, break_at, start_window, minimum_stop_index, cache,
                    iterations, result >>

\* free.rs:59-68
EarlyReturn ==
    /\ pc = "seeded"
    /\ start_candidates = << >>
    /\ result' = Some([ distance |-> calculate_distance(route, Unwrap(best_valid).path),
                        path     |-> Unwrap(best_valid).path ])
    /\ pc' = "done"
    /\ UNCHANGED << route, legs, break_at, dist_matrix, graph, best_valid, start_candidates,
                    start_window, minimum_stop_index, cache, iterations >>

Min(a, b) == IF a <= b THEN a ELSE b

\* OptimizationResult::slide (free.rs:239-288): hold the inner turnpoints and
\* move the first and the last one
slide(self, points, window, l) ==
    LET second      == At(self.path, 1)
        penultimate == At(self.path, l - 1)
        first_stop  == Min(window.stop, second)
        inner(start_index) ==
            max_by_key(
                SelectSeq(
                    Eval([ k \in 1..(Len(points) - penultimate) |->
                             [ start_index |-> start_index,
                               stop_index  |-> penultimate + k - 1,
                               distance    |->
                                   FlatDistance(At(points, start_index), At(points, second))
                                   + FlatDistance(At(points, penultimate + k - 1),
                                                  At(points, penultimate)) ] ]),
                    LAMBDA sl : valid(points, sl.start_index, sl.stop_index)))
        found == SelectSeq(Eval([ k \in 1..(first_stop - window.start) |->
                                    inner(window.start + k - 1) ]), IsSome)
        best  == max_by_key([ k \in 1..Len(found) |-> Unwrap(found[k]) ])
    IN  IF IsSome(best)
        THEN LET new_path == [ [ self.path EXCEPT ![1] = Unwrap(best).start_index ]
                                 EXCEPT ![l + 1] = Unwrap(best).stop_index ]
             IN  Some([ path |-> new_path, distance |-> flat_cum_distance(points, new_path) ])
        ELSE None

\* free.rs:83-92 and 95-108: keep the slid result when it is longer
improve(best, improved) ==
    IF IsSome(improved) /\ Unwrap(improved).distance > best.distance
    THEN Unwrap(improved) ELSE best

\* free.rs:70-81
bound_of(cands) ==
    [ start |-> CHOOSE m \in { cands[i].start_index : i \in 1..Len(cands) } :
                    \A i \in 1..Len(cands) : m <= cands[i].start_index,
      stop  |-> CHOOSE m \in { cands[i].start_index : i \in 1..Len(cands) } :
                    \A i \in 1..Len(cands) : m >= cands[i].start_index ]

\* find_minimum_stop_index, had it returned the row after the one at which
\* the sum passes the distance
RECURSIVE find_minimum_stop_index_late(_, _, _, _)
find_minimum_stop_index_late(dm, distance, i, sum) ==
    IF i >= Len(dm) \/ Len(At(dm, i)) < 2 THEN None
    ELSE IF sum + At(At(dm, i), 1) > distance THEN Some(i + 1)
    ELSE find_minimum_stop_index_late(dm, distance, i + 1, sum + At(At(dm, i), 1))

\* find_minimum_stop_index (free.rs:290-301).  dist_matrix[i][1] is out of
\* bounds for the last row, which has one entry, and for i past the last row:
\* the loop panics there, which is None here.
RECURSIVE find_minimum_stop_index(_, _, _, _)
find_minimum_stop_index(dm, distance, i, sum) ==
    IF i >= Len(dm) \/ Len(At(dm, i)) < 2 THEN None
    ELSE IF sum + At(At(dm, i), 1) > distance THEN Some(i)
    ELSE find_minimum_stop_index(dm, distance, i + 1, sum + At(At(dm, i), 1))

\* get_valid_end_points, had it skipped the start as well
\* (skip(self.start_index + 1))
get_valid_end_points_after_start(candidate, points) ==
    SelectSeq(Eval([ k \in 1..(Len(points) - candidate.start_index - 1) |->
                       candidate.start_index + k ]),
              LAMBDA index : At(points, candidate.start_index).altitude
                                 - At(points, index).altitude <= AltitudeLimit)

\* StartCandidate::get_valid_end_points (free.rs:214-228)
get_valid_end_points(candidate, points) ==
    SelectSeq(Eval([ k \in 1..(Len(points) - candidate.start_index) |->
                       candidate.start_index + k - 1 ]),
              LAMBDA index : At(points, candidate.start_index).altitude
                                 - At(points, index).altitude <= AltitudeLimit)

\* free.rs:126-130
stops_of(candidate, points, min_stop) ==
    SelectSeq(get_valid_end_points(candidate, points), LAMBDA x : x > min_stop)

SetOf(s) == { s[i] : i \in 1..Len(s) }

\* check_cache (free.rs:310-345).  offset_start and the guess made for one
\* element of the difference (free.rs:320-321, 330-332)
item_offset_start(cache_item, points, candidate) ==
    FlatDistance(At(points, cache_item.start), At(points, candidate.start_index))

item_guess(cache_item, points, candidate, to_check) ==
    FlatDistance(At(points, cache_item.stops[Len(cache_item.stops)]), At(points, to_check))
    + item_offset_start(cache_item, points, candidate) + cache_item.distance

\* free.rs:327-337: the loop over stop_set.difference(..).  It breaks with
\* use_caching false at the first element whose guess is above best_distance;
\* when no element is, distance is left at the guess of the element the hash
\* set's iterator yields last.  The distance of a false answer is never read
\* (free.rs:141).
\* scan_difference, had use_caching been set anew by every element instead
\* of breaking at the first one above best_distance
scan_difference_last_only(cache_item, points, candidate, best_distance, stop_set, last) ==
    LET difference == stop_set \ SetOf(cache_item.stops)
    IN  IF difference = {}
        THEN [ use_caching |-> TRUE, distance |-> cache_item.distance ]
        ELSE [ use_caching |-> item_guess(cache_item, points, candidate, last)
                                   <= best_distance,
               distance    |-> item_guess(cache_item, points, candidate, last) ]

scan_difference(cache_item, points, candidate, best_distance, stop_set, last) ==
    LET difference == stop_set \ SetOf(cache_item.stops)
    IN  IF difference = {}
        THEN [ use_caching |-> TRUE, distance |-> cache_item.distance ]
        ELSE IF \E to_check \in difference :
                    item_guess(cache_item, points, candidate, to_check) > best_distance
        THEN [ use_caching |-> FALSE, distance |-> 0 ]
        ELSE [ use_caching |-> TRUE,
               distance    |-> item_guess(cache_item, points, candidate, last) ]

\* free.rs:319-343: the cache is walked from its newest item (i counts down)
\* until one item sets use_caching; lasts[i] is the element of item i's
\* difference that the iterator yields last
RECURSIVE check_cache(_, _, _, _, _, _, _)
check_cache(items, i, points, candidate, best_distance, stop_set, lasts) ==
    IF i = 0 THEN [ use_caching |-> FALSE, distance |-> 0 ]
    ELSE IF /\ items[i].distance + item_offset_start(items[i], points, candidate)
                   < best_distance
            /\ SetOf(items[i].stops) \subseteq stop_set
         THEN LET scanned == scan_difference(items[i], points, candidate, best_distance,
                                             stop_set, lasts[i])
              IN  IF scanned.use_caching THEN scanned
                  ELSE check_cache(items, i - 1, points, candidate, best_distance,
                                   stop_set, lasts)
         ELSE check_cache(items, i - 1, points, candidate, best_distance, stop_set, lasts)

\* Every way the iterators over the differences can end: one last element
\* for each cache item (-1 where the difference is empty)
RECURSIVE hash_orders(_, _, _)
hash_orders(items, k, stop_set) ==
    IF k = 0 THEN { << >> }
    ELSE LET difference == stop_set \ SetOf(items[k].stops)
             ends == IF difference = {} THEN { -1 } ELSE difference
         IN  { Append(lasts, last) : lasts \in hash_orders(items, k - 1, stop_set),
                                     last \in ends }

\* The order in which the smallest element comes last at every item
first_order(items, stop_set) ==
    Eval([ k \in 1..Len(items) |->
             LET difference == stop_set \ SetOf(items[k].stops)
             IN  IF difference = {} THEN -1
                 ELSE CHOOSE m \in difference : \A e \in difference : m <= e ])

\* free.rs:83-92: the window, and Slide applied to the seed solution
SlideBestValid ==
    /\ pc = "seeded"
    /\ start_candidates # << >>
    /\ start_window' = Some(bound_of(start_candidates))
    /\ best_valid' = Some(improve(Unwrap(best_valid),
                                  slide(Unwrap(best_valid), route,
                                        bound_of(start_candidates), legs)))
    /\ pc' = "slid"
    /\ UNCHANGED << route, legs, break_at, dist_matrix, graph, start_candidates,
                    minimum_stop_index, cache, iterations, result >>

\* free.rs:95-108: Slide applied to the solution found without the altitude rule
SlideBestSolution ==
    /\ pc = "slid"
    /\ best_valid' = Some(improve(Unwrap(best_valid),
                                  slide(Unwrap(find_best_solution(graph)), route,
                                        Unwrap(start_window), legs)))
    /\ pc' = "slid_twice"
    /\ UNCHANGED << route, legs, break_at, dist_matrix, graph, start_candidates,
                    start_window, minimum_stop_index, cache, iterations, result >>

\* free.rs:110-119: the minimum stop index, then the candidates are filtered
MinimumStop ==
    /\ pc = "slid_twice"
    /\ LET found == find_minimum_stop_index(dist_matrix, Unwrap(best_valid).distance, 0, 0)
       IN  /\ minimum_stop_index' = found
           /\ IF IsSome(found)
              THEN /\ start_candidates' = retain(start_candidates, Unwrap(best_valid).distance)
                   /\ pc' = "loop"
              ELSE /\ start_candidates' = start_candidates
                   /\ pc' = "panic"
    /\ UNCHANGED << route, legs, break_at, dist_matrix, graph, best_valid, start_window,
                    cache, iterations, result >>

\* cannot_score_above, had the comparison been the other way round
cannot_score_above_flipped(candidate, limit) == candidate.distance > limit

\* free.rs:154-155: the candidate is below the distance worth a search
cannot_score_above(candidate, limit) == candidate.distance < limit

\* The variables the loop of optimize works on
loop_state ==
    [ start_candidates |-> start_candidates, cache |-> cache, best_valid |-> best_valid,
      iterations |-> iterations, pc |-> pc, result |-> result ]

\* One pass of the loop (free.rs:121-194) from state s with a candidate left,
\* under the hash orders lasts.  branch names the way the pass took.
loop_body(s, lasts) ==
    LET candidate == s.start_candidates[Len(s.start_candidates)]
        popped    == SubSeq(s.start_candidates, 1, Len(s.start_candidates) - 1)
        stops     == stops_of(candidate, route, Unwrap(minimum_stop_index))
        checked   == check_cache(s.cache, Len(s.cache), route, candidate,
                                 Unwrap(s.best_valid).distance, SetOf(stops), lasts)
        finish_altitude == At(route, candidate.start_index).altitude
        candidate_graph == for_start_index(finish_altitude, dist_matrix, route, legs)
        best_valid_for_candidate == find_best_valid_solution(candidate_graph, route)
    IN  IF stops = << >>
        THEN [ s EXCEPT !.start_candidates = popped ] @@ [ branch |-> "skip" ]
        ELSE IF checked.use_caching
        THEN [ s EXCEPT !.start_candidates = popped,
                        !.cache = Append(s.cache, [ start    |-> candidate.start_index,
                                                    stops    |-> stops,
                                                    distance |-> checked.distance ]) ]
             @@ [ branch |-> "cached" ]
        ELSE IF cannot_score_above(candidate, break_at)
        THEN [ s EXCEPT !.start_candidates = popped,
                        !.result = s.best_valid,
                        !.pc = "done" ] @@ [ branch |-> "break" ]
        ELSE IF ~IsSome(best_valid_for_candidate)
        THEN [ s EXCEPT !.start_candidates = popped,
                        !.iterations = s.iterations + 1,
                        !.pc = "panic" ] @@ [ branch |-> "resolve" ]
        ELSE LET better == Unwrap(best_valid_for_candidate).distance
                               > Unwrap(s.best_valid).distance
             IN  [ s EXCEPT !.iterations = s.iterations + 1,
                            !.cache = Append(s.cache,
                                [ start    |-> candidate.start_index,
                                  stops    |-> stops,
                                  distance |-> Unwrap(best_valid_for_candidate).distance ]),
                            !.best_valid = IF better THEN best_valid_for_candidate
                                           ELSE s.best_valid,
                            !.start_candidates =
                                IF better
                                THEN retain(popped, Unwrap(best_valid_for_candidate).distance)
                                ELSE popped ] @@ [ branch |-> "resolve" ]

\* free.rs:197-204: the return after the loop
final_return(s) ==
    [ s EXCEPT !.result = Some([ distance |-> calculate_distance(route,
                                                   Unwrap(s.best_valid).path),
                                 path     |-> Unwrap(s.best_valid).path ]),
               !.pc = "done" ]

\* The stops of the candidate the loop pops next
next_stops(s) ==
    stops_of(s.start_candidates[Len(s.start_candidates)], route, Unwrap(minimum_stop_index))

stops == next_stops(loop_state)

\* the loop's variables in what a pass of the loop leaves
loop_fields(next) ==
    [ start_candidates |-> next.start_candidates, cache |-> next.cache,
      best_valid |-> next.best_valid, iterations |-> next.iterations,
      pc |-> next.pc, result |-> next.result ]

\* The loop run to its end from state s, with the hash sets yielding their
\* smallest element last every time
RECURSIVE run(_)
run(s) ==
    IF s.pc # "loop" THEN s
    ELSE IF s.start_candidates = << >> THEN final_return(s)
    ELSE run(loop_fields(loop_body(s, first_order(s.cache, SetOf(next_stops(s))))))

\* One pass of the loop that takes the named branch under some hash order
LoopPass(branch) ==
    /\ \E lasts \in hash_orders(cache, Len(cache), SetOf(stops)) :
           LET next == loop_body(loop_state, lasts)
           IN  /\ next.branch = branch
               /\ start_candidates' = next.start_candidates
               /\ cache' = next.cache
               /\ best_valid' = next.best_valid
               /\ iterations' = next.iterations
               /\ pc' = next.pc
               /\ result' = next.result
    /\ UNCHANGED << route, legs, break_at, dist_matrix, graph, start_window,
                    minimum_stop_index >>

\* free.rs:121-133: no stop is left for the candidate
SkipCandidate ==
    /\ pc = "loop"
    /\ start_candidates # << >>
    /\ LoopPass("skip")

\* free.rs:134-152: a cached item rules the candidate out
CachedCandidate ==
    /\ pc = "loop"
    /\ start_candidates # << >>
    /\ LoopPass("cached")

\* free.rs:154-157: the candidate is below break_at
BreakAt ==
    /\ pc = "loop"
    /\ start_candidates # << >>
    /\ LoopPass("break")

\* free.rs:158-194: the candidate's own graph is built and solved
ResolveCandidate ==
    /\ pc = "loop"
    /\ start_candidates # << >>
    /\ LoopPass("resolve")

\* FinalReturn, had optimize returned None after the loop
FinalReturn_none ==
    /\ pc = "loop"
    /\ start_candidates = << >>
    /\ result' = None
    /\ pc' = "done"
    /\ UNCHANGED << route, legs, break_at, dist_matrix, graph, best_valid, start_candidates,
                    start_window, minimum_stop_index, cache, iterations >>

\* free.rs:197-204: the loop is over
FinalReturn ==
    /\ pc = "loop"
    /\ start_candidates = << >>
    /\ result' = final_return(loop_state).result
    /\ pc' = "done"
    /\ UNCHANGED << route, legs, break_at, dist_matrix, graph, best_valid, start_candidates,
                    start_window, minimum_stop_index, cache, iterations >>

Next ==
    \/ EmptyRoute
    \/ Seed
    \/ EarlyReturn
    \/ SlideBestValid
    \/ SlideBestSolution
    \/ MinimumStop
    \/ SkipCandidate
    \/ CachedCandidate
    \/ BreakAt
    \/ ResolveCandidate
    \/ FinalReturn

Spec == Init /\ [][Next]_vars

(* ------------------------------- claims ------------------------------- *)

returned == pc = "done" /\ IsSome(result)

returned_path == Unwrap(result).path

\* the candidates that a cached item ruled out so far
pruned_count == Len(cache) - (iterations - 1)

\* every sequence of k + 1 fix indices of a route of n fixes, in route order
RECURSIVE OrderedPaths(_, _)
OrderedPaths(n, k) ==
    IF k = 0 THEN { << i >> : i \in 0..(n - 1) }
    ELSE UNION { { Append(p, j) : j \in p[Len(p)]..(n - 1) } : p \in OrderedPaths(n, k - 1) }

\* the largest planar length of an ordered path that keeps the altitude rule
BestPlanar(points, l) ==
    LET lengths == { flat_cum_distance(points, p) :
                       p \in { q \in OrderedPaths(Len(points), l) :
                                 At(points, q[1]).altitude
                                     - At(points, q[Len(q)]).altitude <= AltitudeLimit } }
    IN  CHOOSE m \in lengths : \A d \in lengths : d <= m

\* C1: with break_at = 0 the returned path is as long, in the plane, as the
\* longest ordered sequence of legs + 1 fixes that keeps the altitude rule
C1_Optimal ==
    (returned /\ break_at = 0) =>
        flat_cum_distance(route, returned_path) = BestPlanar(route, legs)

\* C2: every returned path loses at most 1000 of altitude from start to finish
C2_AltitudeRule ==
    returned =>
        At(route, returned_path[1]).altitude
            - At(route, returned_path[Len(returned_path)]).altitude <= AltitudeLimit

\* C2: a path that Slide put in place of the seed was returned, on a route
\* where some pair of fixes breaks the rule
C2_Witness ==
    /\ returned
    /\ iterations = 1
    /\ IsSome(start_window)
    /\ returned_path # Unwrap(find_best_valid_solution(graph, route)).path
    /\ \E i, j \in 1..Len(route) : i < j /\ route[i].altitude - route[j].altitude > AltitudeLimit
    /\ At(route, returned_path[1]).altitude
           - At(route, returned_path[Len(returned_path)]).altitude <= AltitudeLimit

\* C3: the returned path has legs + 1 elements, each an index into the route
C3_PathShape ==
    returned =>
        /\ Len(returned_path) = legs + 1
        /\ \A i \in 1..Len(returned_path) : returned_path[i] \in 0..(Len(route) - 1)

\* C3: a path of more than two turnpoints was returned after a candidate's own
\* graph was walked
C3_Witness ==
    /\ returned
    /\ legs >= 2
    /\ iterations > 1
    /\ Len(returned_path) = legs + 1

\* C4 as stated: the returned path is strictly increasing in fix index
C4_StrictlyIncreasing ==
    returned =>
        \A i \in 1..(Len(returned_path) - 1) : returned_path[i] < returned_path[i + 1]

\* C4: the returned path never steps back in fix index (it can stay on a fix)
C4_NonDecreasing ==
    returned =>
        \A i \in 1..(Len(returned_path) - 1) : returned_path[i] <= returned_path[i + 1]

\* C4: a returned path on a route long enough for distinct turnpoints that
\* uses one fix as two turnpoints
C4_Witness ==
    /\ returned
    /\ Len(route) >= legs + 1
    /\ \E i \in 1..(Len(returned_path) - 1) : returned_path[i] = returned_path[i + 1]
    /\ \A i \in 1..(Len(returned_path) - 1) : returned_path[i] <= returned_path[i + 1]

\* C5: on every return the reported distance is the Vincenty length of the
\* returned path
C5_VincentyDistance ==
    returned => Unwrap(result).distance = calculate_distance(route, returned_path)

\* how optimize ends from the loop state s when the hash sets keep to
\* first_order from there on
outcome(s) == LET end == run(s) IN [ pc |-> end.pc, result |-> end.result ]

C7_BreakAtShortCircuit ==
    [][(\A i \in 1..Len(start_candidates) : start_candidates[i].distance < break_at) =>
           /\ iterations' = iterations
           /\ (pc \in { "slid_twice", "loop" } => best_valid' = best_valid)
           /\ (pc' = "done" => Unwrap(result').path = Unwrap(best_valid).path)]_vars

\* C7: the loop returned at break_at, every candidate of the seed being below
\* it, with the path a Slide had put in place of the seed's
C7_Witness ==
    /\ returned
    /\ IsSome(start_window)
    /\ iterations = 1
    /\ LET seed == Unwrap(find_best_valid_solution(graph, route))
           candidates == initial_start_candidates(graph, legs, seed.distance)
       IN  /\ candidates # << >>
           /\ \A i \in 1..Len(candidates) : candidates[i].distance < break_at
           /\ returned_path # seed.path
    /\ result = best_valid
    /\ Unwrap(result).distance > 0

\* DegenerateLegs + 1 identical fixes, DegenerateLegs legs
IsDegenerate ==
    /\ legs = DegenerateLegs
    /\ Len(route) = DegenerateLegs + 1
    /\ \A i \in 1..Len(route) : route[i] = route[1]

\* C8 as stated: 7 identical fixes and 6 legs give distance 0 and the path
\* 0, 1, ..., 6
C8_DegenerateEveryFix ==
    (IsDegenerate /\ pc = "done") =>
        result = Some([ distance |-> 0, path |-> [ i \in 1..(legs + 1) |-> i - 1 ] ])

\* C8: 7 identical fixes and 6 legs give distance 0 and the path that stays
\* on the last fix, 6, 6, ..., 6; the call does not fail
C8_DegenerateLastFix ==
    IsDegenerate =>
        /\ pc # "panic"
        /\ pc = "done" =>
               result = Some([ distance |-> 0,
                               path |-> [ i \in 1..(legs + 1) |-> Len(route) - 1 ] ])

\* C8: optimize returned on 7 identical fixes
C8_Witness ==
    /\ IsDegenerate
    /\ returned
    /\ Unwrap(result).distance = 0
    /\ \A i \in 1..Len(returned_path) : returned_path[i] = DegenerateLegs

\* Fixes a positive, equal distance apart whose altitude never rises and
\* falls by TotalDrop from the first to the last
IsDrop ==
    /\ Len(route) >= 2
    /\ \A i \in 1..(Len(route) - 1) :
           /\ FlatDistance(route[i], route[i + 1]) = FlatDistance(route[1], route[2])
           /\ route[i].altitude >= route[i + 1].altitude
    /\ FlatDistance(route[1], route[2]) > 0
    /\ route[1].altitude - route[Len(route)].altitude = TotalDrop

\* C9 as stated: on such a route no path is returned
C9_NoValidSolution == IsDrop => ~returned

\* C9: on such a route optimize does not fail; the path it returns loses at
\* most 1000 of altitude from its start to its finish
C9_DropReturnsValidPath ==
    IsDrop =>
        /\ pc # "panic"
        /\ pc = "done" =>
               /\ IsSome(result)
               /\ Len(returned_path) = legs + 1
               /\ At(route, returned_path[1]).altitude
                      - At(route, returned_path[Len(returned_path)]).altitude
                      <= AltitudeLimit

\* C9: a path of positive length was returned on a descending route
C9_Witness ==
    /\ IsDrop
    /\ returned
    /\ Len(route) >= 4
    /\ flat_cum_distance(route, returned_path) > 0
    /\ At(route, returned_path[1]).altitude
           - At(route, returned_path[Len(returned_path)]).altitude <= AltitudeLimit

\* C10 as stated: a route that is empty or shorter than legs + 1 yields no path
C10_EmptyInput == Len(route) < legs + 1 => ~returned

\* C10: on an empty route optimize fails and yields no path; on any other
\* route shorter than legs + 1, what it returns is a path of legs + 1
\* indices that uses a fix more than once
C10_ShortRouteRepeatsFix ==
    /\ route = << >> => pc \in { "start", "panic" } /\ ~IsSome(result)
    /\ (route # << >> /\ Len(route) < legs + 1 /\ pc = "done") =>
           /\ IsSome(result)
           /\ Len(returned_path) = legs + 1
           /\ \E i, j \in 1..Len(returned_path) :
                  i < j /\ returned_path[i] = returned_path[j]

\* C10: optimize returned on a route of two or more fixes that is shorter
\* than legs + 1
C10_Witness ==
    /\ returned
    /\ Len(route) >= 2
    /\ Len(route) < legs + 1
    /\ \E i, j \in 1..Len(returned_path) : i < j /\ returned_path[i] = returned_path[j]

(* -------------------------------- C11 --------------------------------- *)

\* The sum find_minimum_stop_index accumulates over the whole matrix: the
\* distances between consecutive fixes (free.rs:294-295)
consecutive_sum(dm) ==
    SumSeq([ i \in 1..(Len(dm) - 1) |-> At(dm[i], 1) ])

\* optimize has called find_minimum_stop_index with a best distance that the
\* consecutive distances never exceed
minimum_stop_not_found ==
    /\ IsSome(start_window)
    /\ pc \notin { "slid", "slid_twice" }
    /\ consecutive_sum(dist_matrix) <= Unwrap(best_valid).distance

\* C11: when the distances between consecutive fixes never add up to more
\* than the best distance after Slide, the search for the minimum stop index
\* ends in an error handed to the caller of optimize and reads no entry
\* outside a row of the distance matrix: optimize does not panic there.
C11_MinimumStopNotFound == minimum_stop_not_found => pc # "panic"

\* the search ran off the distance matrix
C11_Witness == minimum_stop_not_found /\ minimum_stop_index = None

(* -------------------------------- C12 --------------------------------- *)

\* The candidate the loop pops next (free.rs:120)
next_candidate == start_candidates[Len(start_candidates)]

\* The full resolve of a candidate (free.rs:159-166): the graph built for the
\* candidate's altitude and its best compliant solution
resolve(candidate) ==
    find_best_valid_solution(
        for_start_index(At(route, candidate.start_index).altitude, dist_matrix, route, legs),
        route)

\* C12: cache monotonicity.  Whenever the cache rules the next candidate out
\* with a bound ub (the distance stored with the item pushed for it), the
\* full resolve of that candidate yields a distance of at most ub.
C12_CacheMonotone ==
    (pc = "loop" /\ start_candidates # << >>) =>
        \A lasts \in hash_orders(cache, Len(cache), SetOf(stops)) :
            LET next == loop_body(loop_state, lasts)
            IN  (next.branch = "cached" /\ IsSome(resolve(next_candidate))) =>
                    Unwrap(resolve(next_candidate)).distance
                        <= next.cache[Len(next.cache)].distance

(* -------------------------------- C13 --------------------------------- *)

\* Graph::from_distance_matrix as a function of the route and the number of
\* legs alone: the inputs of optimize, and the step that builds the graph
\* (free.rs:29-33).  break_at is not read before the loop.
GraphInit == Init /\ route # << >> /\ break_at = 0

GraphNext == Seed

GraphSpec == GraphInit /\ [][GraphNext]_vars

\* the largest planar length among the paths of a non-empty set
MaxLength(points, paths) ==
    LET lengths == { flat_cum_distance(points, p) : p \in paths }
    IN  CHOOSE m \in lengths : \A d \in lengths : d <= m

StrictlyIncreasing(p) == \A i \in 1..(Len(p) - 1) : p[i] < p[i + 1]

\* C13 as stated: in the graph built without the altitude rule, the cell of
\* layer k - 1 at fix j holds the largest planar length of a strictly
\* increasing sequence of k + 1 fixes that ends at j: no such sequence is
\* longer than the cell's distance, and one is as long when there is any.
C13_LongestEndingAt ==
    pc = "seeded" =>
        \A k \in 1..legs :
            LET ending == { p \in OrderedPaths(Len(route), k) : StrictlyIncreasing(p) }
            IN  \A j \in 0..(Len(route) - 1) :
                    LET paths == { p \in ending : p[Len(p)] = j }
                    IN  paths # {} =>
                            At(graph[k], j).distance = MaxLength(route, paths)

\* C13, amended: the cell of layer k - 1 at fix j holds the largest planar
\* length of a non-decreasing sequence of k + 1 fix indices that begins at j.
C13_LongestBeginningAt ==
    pc = "seeded" =>
        \A k \in 1..legs :
            LET ordered == OrderedPaths(Len(route), k)
            IN  \A j \in 0..(Len(route) - 1) :
                    At(graph[k], j).distance
                        = MaxLength(route, { p \in ordered : p[1] = j })

\* a graph of two layers or more over fixes that lie apart
C13_Witness ==
    /\ pc = "seeded"
    /\ legs >= 2
    /\ Len(route) >= 3
    /\ At(graph[legs], 0).distance > At(graph[1], 0).distance

(* -------------------------------- C14 --------------------------------- *)

\* The calls of Slide that optimize is about to make: on the seed solution
\* over the window of the start candidates (free.rs:83), then on the solution
\* found without the altitude rule (free.rs:95-98)
slide_calls ==
    IF pc = "seeded" /\ start_candidates # << >>
    THEN { [ on  |-> Unwrap(best_valid),
             got |-> slide(Unwrap(best_valid), route, bound_of(start_candidates), legs) ] }
    ELSE IF pc = "slid"
    THEN { [ on  |-> Unwrap(find_best_solution(graph)),
             got |-> slide(Unwrap(find_best_solution(graph)), route,
                           Unwrap(start_window), legs) ] }
    ELSE { }

\* C14: Slide returns a new result only if a strictly better pair of first
\* and last turnpoint exists: what it returns is longer than the path it was
\* applied to, and it returns nothing for a path with fewer than three
\* turnpoints.
C14_SlideOnlyImproves ==
    \A call \in slide_calls :
        IsSome(call.got) =>
            /\ Len(call.on.path) >= 3
            /\ Unwrap(call.got).distance > call.on.distance

(* ------------------------- Cache (cache.rs) --------------------------- *)

(* cache.rs holds the cache as a type of its own: CacheItem with            *)
(* places_upperbound, Cache with set and check.  No exported function calls *)
(* it, so it is checked in a specification of its own, CacheSpec, which     *)
(* calls set and check in every order.  CacheSpec keeps the projected fixes *)
(* in route, Cache.items in cache, what the last call of check returned in  *)
(* result, and leaves the other variables of optimize alone.                *)

\* the most items a cache of CacheSpec comes to hold; set leaves room for
\* one item of check
MaxItems == 2

\* Projected fixes on a line; all distances are 0, 3, 4 or 7
CacheRoutes ==
    { LineRoute(xs, << 0, 0, 0 >>) : xs \in { << 0, 3, 7 >>, << 0, 0, 4 >> } }

SetMax(S) == CHOOSE m \in S : \A e \in S : e <= m

\* the distances of the items handed to set
KnownDistances == { 0, 4 }

\* The items handed to set.  The fields of CacheItem are public and set
\* stores what it is given: the tests of cache.rs store items with an empty
\* stop set (cache.rs:185-196) and with a last_stop that is not the largest
\* stop (cache.rs:117-122).
CacheItems ==
    { [ start |-> st, last_stop |-> ls, stop_set |-> ss, distance |-> d ] :
        st \in 0..1, ls \in 0..2, ss \in SUBSET (0..2), d \in KnownDistances }

\* the items that keep to "last_stop is the largest of the stops"
WellFormed(item) == item.stop_set # {} /\ item.last_stop = SetMax(item.stop_set)

\* The arguments of check.  cache.rs reads only start_index of a candidate.
CacheCandidates == { [ start_index |-> st, distance |-> 0 ] : st \in 0..2 }

BestDistances == { 4, 7 }

StopSets == SUBSET (0..2)

\* places_upperbound, had it asked for the stored stop set to hold the
\* candidate's
places_upperbound_subset(self, flat_points, candidate, best_distance, stop_set) ==
    LET offset_start == FlatDistance(At(flat_points, self.start),
                                     At(flat_points, candidate.start_index))
        guesses == { FlatDistance(At(flat_points, self.last_stop), At(flat_points, e))
                         + offset_start + self.distance : e \in stop_set \ self.stop_set }
        candidate_guess == SetMax(guesses \cup { self.distance + offset_start })
    IN  IF self.distance + offset_start >= best_distance THEN None
        ELSE IF ~(stop_set \subseteq self.stop_set) THEN None
        ELSE IF candidate_guess > best_distance THEN None
        ELSE Some(candidate_guess)

\* CacheItem::places_upperbound (cache.rs:26-51).  candidate_guess is a
\* running maximum and the loop leaves with None as soon as it is above
\* best_distance: it returns None when the largest guess is above
\* best_distance, whatever the order of the hash set.
places_upperbound(self, flat_points, candidate, best_distance, stop_set) ==
    LET offset_start == FlatDistance(At(flat_points, self.start),
                                     At(flat_points, candidate.start_index))
        guesses == { FlatDistance(At(flat_points, self.last_stop), At(flat_points, e))
                         + offset_start + self.distance : e \in stop_set \ self.stop_set }
        candidate_guess == SetMax(guesses \cup { self.distance + offset_start })
    IN  IF self.distance + offset_start >= best_distance THEN None
        ELSE IF ~(self.stop_set \subseteq stop_set) THEN None
        ELSE IF candidate_guess > best_distance THEN None
        ELSE Some(candidate_guess)

\* Cache::set (cache.rs:64-66)
set(items, item) == Append(items, item)

\* checked_item, had it taken the smallest stop as last_stop
checked_item_min(candidate, stop_set, upperbound) ==
    [ start |-> candidate.start_index,
      last_stop |-> CHOOSE m \in stop_set : \A e \in stop_set : m <= e,
      stop_set |-> stop_set, distance |-> upperbound ]

\* the item check stores for a candidate (cache.rs:85-90)
checked_item(candidate, stop_set, upperbound) ==
    [ start |-> candidate.start_index, last_stop |-> SetMax(stop_set),
      stop_set |-> stop_set, distance |-> upperbound ]

\* Cache::check (cache.rs:68-95) from item i down to the oldest.  The
\* maximum of an empty stop set is the unwrap of None: a panic.
\* check_from, had it stored the candidate's start as last_stop instead of
\* the largest stop
RECURSIVE check_from_start_as_last(_, _, _, _, _, _)
check_from_start_as_last(items, i, flat_points, candidate, best_distance, stop_set) ==
    IF i = 0 THEN [ returned |-> FALSE, items |-> items, panicked |-> FALSE ]
    ELSE LET upperbound == places_upperbound(items[i], flat_points, candidate,
                                             best_distance, stop_set)
         IN  IF ~IsSome(upperbound)
             THEN check_from_start_as_last(items, i - 1, flat_points, candidate,
                                       best_distance, stop_set)
             ELSE [ returned |-> TRUE,
                    items    |-> set(items, [ start     |-> candidate.start_index,
                                              last_stop |-> candidate.start_index,
                                              stop_set  |-> stop_set,
                                              distance  |-> Unwrap(upperbound) ]),
                    panicked |-> FALSE ]

RECURSIVE check_from(_, _, _, _, _, _)
check_from(items, i, flat_points, candidate, best_distance, stop_set) ==
    IF i = 0 THEN [ returned |-> FALSE, items |-> items, panicked |-> FALSE ]
    ELSE LET upperbound == places_upperbound(items[i], flat_points, candidate,
                                             best_distance, stop_set)
         IN  IF ~IsSome(upperbound)
             THEN check_from(items, i - 1, flat_points, candidate, best_distance, stop_set)
             ELSE IF stop_set = {}
             THEN [ returned |-> FALSE, items |-> items, panicked |-> TRUE ]
             ELSE [ returned |-> TRUE,
                    items    |-> set(items, checked_item(candidate, stop_set,
                                                         Unwrap(upperbound))),
                    panicked |-> FALSE ]

\* check, had it walked the items from the oldest to the newest
RECURSIVE check_oldest_first_from(_, _, _, _, _, _)
check_oldest_first_from(items, i, flat_points, candidate, best_distance, stop_set) ==
    IF i > Len(items) THEN [ returned |-> FALSE, items |-> items, panicked |-> FALSE ]
    ELSE LET upperbound == places_upperbound(items[i], flat_points, candidate,
                                             best_distance, stop_set)
         IN  IF ~IsSome(upperbound)
             THEN check_oldest_first_from(items, i + 1, flat_points, candidate,
                                          best_distance, stop_set)
             ELSE IF stop_set = {}
             THEN [ returned |-> FALSE, items |-> items, panicked |-> TRUE ]
             ELSE [ returned |-> TRUE,
                    items    |-> set(items, checked_item(candidate, stop_set,
                                                         Unwrap(upperbound))),
                    panicked |-> FALSE ]

check_oldest_first(items, flat_points, candidate, best_distance, stop_set) ==
    check_oldest_first_from(items, 1, flat_points, candidate, best_distance, stop_set)

check(items, flat_points, candidate, best_distance, stop_set) ==
    check_from(items, Len(items), flat_points, candidate, best_distance, stop_set)

\* Cache::new (cache.rs:61-63) for some projected fixes
CacheInit ==
    /\ route \in CacheRoutes
    /\ cache = << >>
    /\ pc = "cache"
    /\ result = None
    /\ legs = 1
    /\ break_at = 0
    /\ dist_matrix = << >>
    /\ graph = << >>
    /\ best_valid = None
    /\ start_candidates = << >>
    /\ start_window = None
    /\ minimum_stop_index = None
    /\ iterations = 1

\* a call of Cache::set
CacheSet ==
    /\ pc = "cache"
    /\ Len(cache) + 1 < MaxItems
    /\ \E item \in CacheItems : cache' = set(cache, item)
    /\ result' = None
    /\ UNCHANGED << route, legs, break_at, pc, dist_matrix, graph, best_valid,
                    start_candidates, start_window, minimum_stop_index, iterations >>

\* a call of Cache::check
CacheCheck ==
    /\ pc = "cache"
    /\ Len(cache) < MaxItems
    /\ \E candidate \in CacheCandidates, best_distance \in BestDistances,
          stop_set \in StopSets :
           LET checked == check(cache, route, candidate, best_distance, stop_set)
           IN  /\ cache' = checked.items
               /\ result' = Some(checked.returned)
               /\ pc' = IF checked.panicked THEN "panic" ELSE "cache"
    /\ UNCHANGED << route, legs, break_at, dist_matrix, graph, best_valid,
                    start_candidates, start_window, minimum_stop_index, iterations >>

CacheNext == CacheSet \/ CacheCheck

CacheSpec == CacheInit /\ [][CacheNext]_vars

(* -------------------------------- C15 --------------------------------- *)

\* C15: a stored item places an upper bound on a candidate only when the
\* candidate's stop set holds every stop of the stored item: for every
\* candidate, best distance and stop set that lacks a stop of the item,
\* places_upperbound returns no bound.
C15_SupersetOnly ==
    pc = "cache" =>
        \A i \in 1..Len(cache), candidate \in CacheCandidates,
           best_distance \in BestDistances, stop_set \in StopSets :
            ~(cache[i].stop_set \subseteq stop_set) =>
                ~IsSome(places_upperbound(cache[i], route, candidate, best_distance,
                                          stop_set))

\* check returned false on a cache whose item is below the best distance of
\* some candidate with a proper subset of the item's stops, and places its
\* bound on the same candidate with the item's own stops
C15_Witness ==
    /\ pc = "cache"
    /\ Len(cache) = 1
    /\ result = Some(FALSE)
    /\ \E candidate \in CacheCandidates, best_distance \in BestDistances,
          stop_set \in StopSets :
           /\ stop_set # {}
           /\ stop_set \subseteq cache[1].stop_set
           /\ stop_set # cache[1].stop_set
           /\ ~IsSome(places_upperbound(cache[1], route, candidate, best_distance,
                                        stop_set))
           /\ IsSome(places_upperbound(cache[1], route, candidate, best_distance,
                                       cache[1].stop_set))

(* -------------------------------- C16 --------------------------------- *)

\* The upper bound a stored item of optimize's cache gives for a candidate
\* with the stops stop_set: the known distance, the distance between the two
\* starts and the largest distance from the item's last stop to a stop the
\* item does not have (0 when there is none)
upper_bound(cache_item, points, candidate, stop_set) ==
    cache_item.distance + item_offset_start(cache_item, points, candidate)
        + SetMax({ 0 } \cup { FlatDistance(At(points, cache_item.stops[Len(cache_item.stops)]),
                                          At(points, e)) :
                                 e \in stop_set \ SetOf(cache_item.stops) })

\* the stored items whose upper bound for the next candidate is at most the
\* best distance, among those whose stops the candidate's stops hold
pruning_items ==
    { i \in 1..Len(cache) :
        /\ SetOf(cache[i].stops) \subseteq SetOf(stops)
        /\ upper_bound(cache[i], route, next_candidate, SetOf(stops))
               <= Unwrap(best_valid).distance }

\* C16: for the candidate optimize pops next, the cache check reports prune
\* exactly when a stored item whose stops the candidate's stops hold has an
\* upper bound of at most the best distance (the bound equal to the best
\* distance and the item without extra stops included), and the bound stored
\* for the pruned candidate is the upper bound of the newest such item.
C16_UpperBound ==
    (pc = "loop" /\ start_candidates # << >> /\ stops # << >>) =>
        \A lasts \in hash_orders(cache, Len(cache), SetOf(stops)) :
            LET next == loop_body(loop_state, lasts)
            IN  /\ (next.branch = "cached") = (pruning_items # {})
                /\ next.branch = "cached" =>
                       next.cache[Len(next.cache)].distance
                           = upper_bound(cache[SetMax(pruning_items)], route,
                                         next_candidate, SetOf(stops))

(* -------------------------------- C17 --------------------------------- *)

\* the newest item of the cache, and the candidate it was stored for
newest == cache[Len(cache)]

newest_candidate == [ start_index |-> newest.start, distance |-> 0 ]

placing(candidate, best_distance, stop_set) ==
    { i \in 1..Len(cache) :
        IsSome(places_upperbound(cache[i], route, candidate, best_distance, stop_set)) }

\* what the next call of set or check that returns does to the list of items
next_call_appends ==
    /\ \A item \in CacheItems : set(cache, item) = cache \o << item >>
    /\ \A candidate \in CacheCandidates, best_distance \in BestDistances,
          stop_set \in StopSets :
           LET checked == check(cache, route, candidate, best_distance, stop_set)
               found   == placing(candidate, best_distance, stop_set)
           IN  ~checked.panicked =>
                   IF checked.returned
                   THEN /\ found # {}
                        /\ checked.items =
                               cache \o << [ start     |-> candidate.start_index,
                                             last_stop |-> SetMax(stop_set),
                                             stop_set  |-> stop_set,
                                             distance  |->
                                                 Unwrap(places_upperbound(
                                                     cache[SetMax(found)], route, candidate,
                                                     best_distance, stop_set)) ] >>
                   ELSE checked.items = cache

\* a call leaves the items it found where they were
items_kept ==
    /\ Len(cache') >= Len(cache)
    /\ SubSeq(cache', 1, Len(cache)) = cache
    /\ result' = Some(FALSE) => cache' = cache
    /\ result' = Some(TRUE) => Len(cache') = Len(cache) + 1

\* C18: after any sequence of calls of set and check the list of items is, in
\* the order of the calls, every item given to set and one item for every
\* check that returned true, which carries the candidate's start, its stop
\* set and the bound of the newest item that places one; a check that
\* returns false leaves the list as it was, on the empty cache too; no item
\* is dropped or moved.
C18_AppendOnly == [](pc = "cache" => next_call_appends) /\ [][items_kept]_vars

\* check stored an item, and the two items of the cache place different
\* bounds on some candidate
C18_Witness ==
    /\ pc = "cache"
    /\ result = Some(TRUE)
    /\ Len(cache) = 2
    /\ \E candidate \in CacheCandidates, best_distance \in BestDistances,
          stop_set \in StopSets :
           /\ placing(candidate, best_distance, stop_set) = { 1, 2 }
           /\ places_upperbound(cache[1], route, candidate, best_distance, stop_set)
                  # places_upperbound(cache[2], route, candidate, best_distance, stop_set)

(* -------------------------------- C19 --------------------------------- *)

\* C19 as stated: after any sequence of calls of set and check every item of
\* the cache has a non-empty stop set and a last_stop that is the largest
\* element of it, and check never takes the maximum of an empty stop set
\* (which is a panic).
C19_ItemsWellFormed ==
    /\ pc # "panic"
    /\ \A i \in 1..Len(cache) : WellFormed(cache[i])

\* C19, amended: the item a call of check has stored has a non-empty stop
\* set and the largest element of it as last_stop; and while every stored
\* item has a non-empty stop set, no call of check takes the maximum of an
\* empty stop set.
C19_CheckKeepsInvariant ==
    pc = "cache" =>
        /\ result = Some(TRUE) => WellFormed(newest)
        /\ (\A i \in 1..Len(cache) : cache[i].stop_set # {}) =>
               \A candidate \in CacheCandidates, best_distance \in BestDistances,
                  stop_set \in StopSets :
                   ~check(cache, route, candidate, best_distance, stop_set).panicked

\* check stored an item on top of an item that does not have its largest
\* stop as last_stop
C19_Witness ==
    /\ pc = "cache"
    /\ result = Some(TRUE)
    /\ Len(cache) = 2
    /\ cache[1].stop_set # {}
    /\ ~WellFormed(cache[1])
    /\ Cardinality(newest.stop_set) >= 2

(* -------------------------------- C20 --------------------------------- *)

\* C20 as stated: the stops computed for the candidate optimize pops next are
\* the fixes after the candidate's start and after the minimum stop index
\* that lie at most 1000 m below the start; the start is never one of them.
C20_StopsAfterStart ==
    (pc = "loop" /\ start_candidates # << >>) =>
        SetOf(stops) =
            { e \in 0..(Len(route) - 1) :
                /\ e > next_candidate.start_index
                /\ e > Unwrap(minimum_stop_index)
                /\ At(route, next_candidate.start_index).altitude - At(route, e).altitude
                       <= AltitudeLimit }

\* C20, amended: the stops are the fixes from the candidate's start on, the
\* start included, that come after the minimum stop index and lie at most
\* 1000 m below the start.
C20_StopsFromStart ==
    (pc = "loop" /\ start_candidates # << >>) =>
        SetOf(stops) =
            { e \in 0..(Len(route) - 1) :
                /\ e >= next_candidate.start_index
                /\ e > Unwrap(minimum_stop_index)
                /\ At(route, next_candidate.start_index).altitude - At(route, e).altitude
                       <= AltitudeLimit }

\* the next candidate starts after the minimum stop index and is one of its
\* own stops, beside a later fix that is too low and a later fix that is not
C20_Witness ==
    /\ pc = "loop"
    /\ start_candidates # << >>
    /\ next_candidate.start_index > Unwrap(minimum_stop_index)
    /\ next_candidate.start_index \in SetOf(stops)
    /\ Len(stops) >= 2
    /\ \E e \in (next_candidate.start_index + 1)..(Len(route) - 1) : e \notin SetOf(stops)

(* -------------------------------- C21 --------------------------------- *)

\* the sum of the distances between consecutive fixes from fix 0 to fix e,
\* or to the last fix when e is past it
consecutive_sum_to(points, e) ==
    SumSeq([ k \in 1..Min(e, Len(points) - 1) |-> FlatDistance(points[k], points[k + 1]) ])

\* find_minimum_stop_index has returned and the loop has not yet changed the
\* best distance it was called with
minimum_stop_found == pc = "loop" /\ cache = << >> /\ IsSome(minimum_stop_index)

\* C21: the index i that find_minimum_stop_index returns is the smallest one
\* at which the sum of the distances between consecutive fixes 0..i+1 passes
\* the best distance, and no ordered path of legs + 1 fixes that finishes at a
\* fix e <= i is longer in the plane than the best distance.
C21_MinimumStopSound ==
    minimum_stop_found =>
        LET i    == Unwrap(minimum_stop_index)
            best == Unwrap(best_valid).distance
        IN  /\ consecutive_sum_to(route, i + 1) > best
            /\ consecutive_sum_to(route, i) <= best
            /\ \A p \in OrderedPaths(Len(route), legs) :
                   p[Len(p)] <= i => flat_cum_distance(route, p) <= best

\* a minimum stop index past the first fix, with a path of distinct fixes that
\* finishes there
C21_Witness ==
    /\ minimum_stop_found
    /\ Unwrap(minimum_stop_index) >= 1
    /\ \E p \in OrderedPaths(Len(route), legs) :
           /\ p[Len(p)] = Unwrap(minimum_stop_index)
           /\ flat_cum_distance(route, p) > 0

(* -------------------------------- C22 --------------------------------- *)

\* the candidates made from the top layer (free.rs:44-53): one for every
\* cell above the best distance, with the cell's distance, and no other
one_candidate_per_cell ==
    pc = "seeded" =>
        /\ \A j \in 0..(Len(route) - 1) :
               Cardinality({ i \in 1..Len(start_candidates) :
                               start_candidates[i].start_index = j })
                   = IF At(graph[legs], j).distance > Unwrap(best_valid).distance
                     THEN 1 ELSE 0
        /\ \A i \in 1..Len(start_candidates) :
               start_candidates[i].distance
                   = At(graph[legs], start_candidates[i].start_index).distance

\* the worklist is in ascending order of distance
sorted_ascending ==
    \A i, j \in 1..Len(start_candidates) :
        i < j => start_candidates[i].distance <= start_candidates[j].distance

\* a, whose elements are distinct, is b with some elements taken out
Remainder(a, b) ==
    /\ \A i \in 1..Len(a) : \E k \in 1..Len(b) : b[k] = a[i]
    /\ \A i, j \in 1..Len(a) :
           i < j => \E k, m \in 1..Len(b) : k < m /\ b[k] = a[i] /\ b[m] = a[j]

\* A step after the candidates were made only takes candidates out; a pass of
\* the loop takes out the last one, and the candidate left at the end is not
\* above it.
only_removes ==
    /\ pc # "start" => Remainder(start_candidates', start_candidates)
    /\ (pc = "loop" /\ start_candidates # << >>) =>
           /\ Remainder(start_candidates',
                        SubSeq(start_candidates, 1, Len(start_candidates) - 1))
           /\ start_candidates' # << >> =>
                  start_candidates'[Len(start_candidates')].distance
                      <= start_candidates[Len(start_candidates)].distance

\* C22: the start candidates are one for every top-layer cell strictly above
\* the best distance and none for the others, in ascending order of distance;
\* later steps only remove candidates and the loop pops from the end, so the
\* candidates are processed in non-increasing order of distance.
C22_DescendingOrder ==
    /\ [](one_candidate_per_cell /\ sorted_ascending)
    /\ [][only_removes]_vars

\* the loop has processed a candidate and the one it pops next has a smaller
\* distance, while a cell of the top layer gave no candidate
C22_Witness ==
    /\ pc = "loop"
    /\ cache # << >>
    /\ start_candidates # << >>
    /\ At(graph[legs], cache[Len(cache)].start).distance
           > start_candidates[Len(start_candidates)].distance
    /\ \E j \in 0..(Len(route) - 1) :
           At(graph[legs], j).distance < start_candidates[1].distance

(* -------------------------------- C23 --------------------------------- *)

\* the graphs optimize can build for a route: the unconstrained one and the
\* one of every start fix (free.rs:35, 159-165)
candidate_graphs ==
    { for_start_index(At(route, s).altitude, dist_matrix, route, legs) :
        s \in 0..(Len(route) - 1) }

built_graphs == { graph } \cup candidate_graphs

NonDecreasing(p) == \A i \in 1..(Len(p) - 1) : p[i] <= p[i + 1]

\* C23: in every graph that from_distance_matrix or for_start_index builds,
\* the cell of fix i in every layer points to a fix prev_index with
\* i <= prev_index < n; the indices read back from any top-layer cell are
\* therefore non-decreasing, and reversing a path that runs backwards never
\* changes one.
C23_BackPointersForward ==
    pc = "seeded" =>
        \A g \in built_graphs :
            /\ \A layer \in 1..Len(g) : \A i \in 0..(Len(route) - 1) :
                   /\ At(g[layer], i).prev_index >= i
                   /\ At(g[layer], i).prev_index < Len(route)
            /\ \A i \in 0..(Len(route) - 1) :
                   LET path == graph_iterator(g, Len(g), i)
                   IN  NonDecreasing(path) /\ cell_path(g, i) = path

\* a start fix whose graph is not the unconstrained one, with a top-layer
\* cell that reads back as three fixes or more, no two the same
C23_Witness ==
    /\ pc = "seeded"
    /\ \E g \in candidate_graphs :
           /\ g # graph
           /\ \E i \in 0..(Len(route) - 1) :
                  /\ Len(graph_iterator(g, Len(g), i)) >= 3
                  /\ StrictlyIncreasing(graph_iterator(g, Len(g), i))

(* -------------------------------- C24 --------------------------------- *)

\* find_best_valid_solution on the graphs optimize builds for a route: the
\* inputs of optimize and the step that builds the graph and reads the seed
\* solution from it (free.rs:29-37, 503-551)
SolutionSpec == GraphInit /\ [][Seed]_vars

\* A built graph with the fixes whose first-layer distance carries the
\* penalty: none in the unconstrained graph, the fixes too far below the
\* start in the graph of a start fix (free.rs:445-455)
penalised_graphs ==
    { [ g |-> graph, low |-> {} ] }
    \cup { [ g   |-> for_start_index(At(route, s).altitude, dist_matrix, route, legs),
             low |-> { p \in 0..(Len(route) - 1) :
                         At(route, s).altitude - At(route, p).altitude > AltitudeLimit } ] :
             s \in 0..(Len(route) - 1) }

\* the distance the build of a layer computes for the cell of fix t and the
\* previous fix p >= t (free.rs:376-381, 399-405, 441-455)
cell_value(b, layer, t, p) ==
    IF layer = 1
    THEN FlatDistance(At(route, t), At(route, p)) - (IF p \in b.low THEN Penalty ELSE 0)
    ELSE At(b.g[layer - 1], p).distance + FlatDistance(At(route, t), At(route, p))

\* the previous fixes that give the cell of fix t its largest distance
maximal_prev(b, layer, t) ==
    LET values == Eval([ p \in t..(Len(route) - 1) |-> cell_value(b, layer, t, p) ])
    IN  { p \in DOMAIN values : \A q \in DOMAIN values : values[q] <= values[p] }

\* the top-layer cells that keep the altitude rule and have the largest
\* distance among those that do
maximal_ends(b) ==
    LET results == cell_results(b.g)
        ends    == { i \in 1..Len(results) : valid_result(route, results[i]) }
    IN  { i \in ends : \A j \in ends : results[j].distance <= results[i].distance }

SetMin(S) == CHOOSE m \in S : \A e \in S : m <= e

\* C24 as stated: of several previous fixes that give a cell the same largest
\* distance the one seen first is stored, and of several top-layer cells of
\* the same largest distance the first is returned.
C24_FirstSeen ==
    pc = "seeded" =>
        \A b \in penalised_graphs :
            /\ \A layer \in 1..Len(b.g) : \A t \in 0..(Len(route) - 1) :
                   At(b.g[layer], t).prev_index = SetMin(maximal_prev(b, layer, t))
            /\ LET ends == maximal_ends(b)
               IN  ends # {} =>
                       Unwrap(find_best_valid_solution(b.g, route))
                           = cell_results(b.g)[SetMin(ends)]

\* C24, amended: the one seen last is stored, and the last is returned.
C24_LastSeen ==
    pc = "seeded" =>
        \A b \in penalised_graphs :
            /\ \A layer \in 1..Len(b.g) : \A t \in 0..(Len(route) - 1) :
                   At(b.g[layer], t).prev_index = SetMax(maximal_prev(b, layer, t))
            /\ LET ends == maximal_ends(b)
               IN  ends # {} =>
                       Unwrap(find_best_valid_solution(b.g, route))
                           = cell_results(b.g)[SetMax(ends)]

\* fixes that lie apart, with a cell of the second layer that two previous
\* fixes serve equally well and two top-layer cells that tie for the best
C24_Witness ==
    /\ pc = "seeded"
    /\ legs >= 2
    /\ \E b \in penalised_graphs :
           /\ \E t \in 0..(Len(route) - 1) :
                  /\ Cardinality(maximal_prev(b, 2, t)) >= 2
                  /\ At(b.g[2], t).distance > 0
           /\ Cardinality(maximal_ends(b)) >= 2
           /\ Unwrap(find_best_valid_solution(b.g, route)).distance > 0

(* -------------------------------- C25 --------------------------------- *)

\* the graph optimize builds for the start fix s (free.rs:159-165)
graph_for(s) == for_start_index(At(route, s).altitude, dist_matrix, route, legs)

\* the ordered paths of legs + 1 fixes that start at s and finish at a fix at
\* most 1000 m below s
compliant_paths_from(s) ==
    { p \in OrderedPaths(Len(route), legs) : p[1] = s /\ valid(route, s, p[Len(p)]) }

\* C25: for the graph built for a start fix s, find_best_valid_solution
\* returns a path that keeps the altitude rule, is at least as long as every
\* ordered path of legs + 1 fixes from s to a finish at most 1000 m below s,
\* and does not finish at a fix that carries the penalty; its distance is the
\* planar length of its path.
C25_BestForStart ==
    pc = "seeded" =>
        LET found == Eval([ s \in 0..(Len(route) - 1) |->
                              find_best_valid_solution(graph_for(s), route) ])
        IN  /\ \A s \in 0..(Len(route) - 1) :
                   LET r == Unwrap(found[s])
                   IN  /\ IsSome(found[s])
                       /\ valid_result(route, r)
                       /\ valid(route, s, r.path[Len(r.path)])
                       /\ r.distance = flat_cum_distance(route, r.path)
            /\ \A p \in OrderedPaths(Len(route), legs) :
                   valid(route, p[1], p[Len(p)]) =>
                       flat_cum_distance(route, p) <= Unwrap(found[p[1]]).distance

\* a start fix with a later fix too far below it: the longest path from the
\* start would finish there, and what is returned is shorter than the
\* unconstrained best and longer than nothing
C25_Witness ==
    /\ pc = "seeded"
    /\ legs >= 2
    /\ \E s \in 0..(Len(route) - 1) :
           /\ \E f \in s..(Len(route) - 1) : ~valid(route, s, f)
           /\ At(graph[legs], s).distance > MaxLength(route, compliant_paths_from(s))
           /\ MaxLength(route, compliant_paths_from(s)) > 0
           /\ Unwrap(find_best_valid_solution(graph_for(s), route)).distance
                  = MaxLength(route, compliant_paths_from(s))

(* ----------------------- Slide (result.rs, free.rs) -------------------- *)

(* Slide exists twice: OptimizationResult::slide of free.rs, which optimize *)
(* calls, and OptimizationResult::optimize_by_sliding of result.rs, which   *)
(* no exported function calls.  SlideSpec calls either of them once on a    *)
(* result and a window drawn from bounded sets.  It keeps the fixes in      *)
(* route, the result Slide is applied to in best_valid, the window in       *)
(* start_window, legs = number of turnpoints - 1, what the call returned in *)
(* result, and leaves the other variables of optimize alone.                *)

\* Four fixes on a line, at every profile of two altitudes that break the
\* altitude rule between them
SlideRoutes ==
    { LineRoute(xs, alts) : xs \in { << 0, 3, 7, 4 >>, << 5, 0, 0, 6 >> },
                            alts \in [1..4 -> { 0, 1500 }] }

\* the distances stored in the result Slide is applied to (result.rs:132, 159)
StoredDistances == { 0, 100 }

\* optimize_by_sliding, had it searched the whole window for the first
\* turnpoint, not only up to the second turnpoint
sliding_result_whole_window(self, route_, flat_points, window) ==
    LET second      == At(self.path, 1)
        penultimate == At(self.path, Len(self.path) - 2)
        inner(start) ==
            max_by_key(
                SelectSeq(
                    Eval([ k \in 1..(Len(route_) - penultimate) |->
                             [ start    |-> start,
                               stop     |-> penultimate + k - 1,
                               distance |->
                                   FlatDistance(At(flat_points, start), At(flat_points, second))
                                   + FlatDistance(At(flat_points, penultimate + k - 1),
                                                  At(flat_points, penultimate)) ] ]),
                    LAMBDA sl : valid(route_, sl.start, sl.stop)))
        found == SelectSeq(Eval([ k \in 1..(Min(window.stop, Len(route_))
                                                - window.start) |->
                                    inner(window.start + k - 1) ]), IsSome)
    IN  max_by_key([ k \in 1..Len(found) |-> Unwrap(found[k]) ])

\* result.rs:51-77: the search over the first and the last turnpoint
sliding_result(self, route_, flat_points, window) ==
    LET second      == At(self.path, 1)
        penultimate == At(self.path, Len(self.path) - 2)
        inner(start) ==
            max_by_key(
                SelectSeq(
                    Eval([ k \in 1..(Len(route_) - penultimate) |->
                             [ start    |-> start,
                               stop     |-> penultimate + k - 1,
                               distance |->
                                   FlatDistance(At(flat_points, start), At(flat_points, second))
                                   + FlatDistance(At(flat_points, penultimate + k - 1),
                                                  At(flat_points, penultimate)) ] ]),
                    LAMBDA sl : valid(route_, sl.start, sl.stop)))
        found == SelectSeq(Eval([ k \in 1..(Min(window.stop, second)
                                                - window.start) |->
                                    inner(window.start + k - 1) ]), IsSome)
    IN  max_by_key([ k \in 1..Len(found) |-> Unwrap(found[k]) ])

\* from_slide_result, had it kept the stored distance
from_slide_result_stored_distance(self, route_, slide_) ==
    [ path     |-> [ [ self.path EXCEPT ![1] = slide_.start ]
                       EXCEPT ![Len(self.path)] = slide_.stop ],
      distance |-> self.distance ]

\* OptimizationResult::from_slide_result (result.rs:82-89).  route is a slice
\* of Point, so cum_distance is the one of VincentyDistance (point.rs:58-66).
from_slide_result(self, route_, slide_) ==
    LET path == [ [ self.path EXCEPT ![1] = slide_.start ]
                    EXCEPT ![Len(self.path)] = slide_.stop ]
    IN  [ path |-> path, distance |-> calculate_distance(route_, path) ]

\* OptimizationResult::optimize_by_sliding (result.rs:44-80)
optimize_by_sliding(self, route_, flat_points, window) ==
    IF Len(self.path) < 3 THEN None
    ELSE LET found == sliding_result(self, route_, flat_points, window)
         IN  IF IsSome(found) THEN Some(from_slide_result(self, route_, Unwrap(found)))
             ELSE None

SlideInit ==
    /\ route \in SlideRoutes
    /\ legs \in 1..MaxLegs
    /\ \E path \in OrderedPaths(Len(route), legs), d \in StoredDistances :
           best_valid = Some([ path |-> path, distance |-> d ])
    /\ \E start \in 0..(Len(route) - 1), stop \in 0..Len(route) :
           start <= stop /\ start_window = Some([ start |-> start, stop |-> stop ])
    /\ pc = "slide"
    /\ result = None
    /\ break_at = 0
    /\ dist_matrix = << >>
    /\ graph = << >>
    /\ start_candidates = << >>
    /\ minimum_stop_index = None
    /\ cache = << >>
    /\ iterations = 1

\* a call of OptimizationResult::slide (free.rs:239-288)
Slide ==
    /\ pc = "slide"
    /\ result' = Some(slide(Unwrap(best_valid), route, Unwrap(start_window), legs))
    /\ pc' = "slide returned"
    /\ UNCHANGED << route, legs, break_at, dist_matrix, graph, best_valid, start_candidates,
                    start_window, minimum_stop_index, cache, iterations >>

\* a call of OptimizationResult::optimize_by_sliding (result.rs:44-80)
OptimizeBySliding ==
    /\ pc = "slide"
    /\ result' = Some(optimize_by_sliding(Unwrap(best_valid), route, route,
                                          Unwrap(start_window)))
    /\ pc' = "optimize_by_sliding returned"
    /\ UNCHANGED << route, legs, break_at, dist_matrix, graph, best_valid, start_candidates,
                    start_window, minimum_stop_index, cache, iterations >>

SlideNext == Slide \/ OptimizeBySliding

SlideSpec == SlideInit /\ [][SlideNext]_vars

(* -------------------------------- C26 --------------------------------- *)

\* Slide has returned; what it was applied to and what it returned
slide_returned == pc \in { "slide returned", "optimize_by_sliding returned" }

slid_path == Unwrap(best_valid).path

slide_got == Unwrap(result)

\* the second and the last but one turnpoint of the path Slide is applied to
slid_second == At(slid_path, 1)

slid_penultimate == At(slid_path, Len(slid_path) - 2)

\* the pairs of a first and a last turnpoint that Slide searches (result.rs:
\* 52-61): the first from the window and before the second turnpoint, the
\* last from the last but one turnpoint on, at most 1000 m below the first
slide_pairs ==
    { pair \in (0..(Len(route) - 1)) \X (0..(Len(route) - 1)) :
        /\ pair[1] >= Unwrap(start_window).start
        /\ pair[1] < Min(Unwrap(start_window).stop, slid_second)
        /\ pair[2] >= slid_penultimate
        /\ At(route, pair[1]).altitude - At(route, pair[2]).altitude <= AltitudeLimit }

\* what Slide maximises: the first and the last leg (result.rs:63-69)
slide_objective(pair) ==
    FlatDistance(At(route, pair[1]), At(route, slid_second))
    + FlatDistance(At(route, pair[2]), At(route, slid_penultimate))

\* Slide returned a path whose first and last turnpoint are a pair of the
\* search that no other pair beats, or nothing when there is no pair
slide_picks_argmax ==
    IF slide_pairs = {} THEN slide_got = None
    ELSE /\ IsSome(slide_got)
         /\ LET path == Unwrap(slide_got).path
                pair == << path[1], path[Len(path)] >>
            IN  /\ pair \in slide_pairs
                /\ \A other \in slide_pairs : slide_objective(other) <= slide_objective(pair)

\* C26 as stated: whenever a pair of a first and a last turnpoint exists in
\* the ranges of the search that keeps the altitude rule, Slide returns a path
\* with a pair that maximises the sum of the first and the last leg; when
\* there is none it returns nothing.
C26_SlideArgmax == slide_returned => slide_picks_argmax

\* C26, amended: the same for a path of three turnpoints or more.
C26_SlideArgmaxOfThree ==
    (slide_returned /\ Len(slid_path) >= 3) => slide_picks_argmax

\* optimize_by_sliding returned a path that moved both ends of a path of
\* three turnpoints, where a pair of the search was worse and another pair
\* broke the altitude rule
C26_Witness ==
    /\ pc = "optimize_by_sliding returned"
    /\ Len(slid_path) >= 3
    /\ IsSome(slide_got)
    /\ Unwrap(slide_got).path[1] # slid_path[1]
    /\ Unwrap(slide_got).path[Len(slid_path)] # slid_path[Len(slid_path)]
    /\ \E other \in slide_pairs :
           slide_objective(other)
               < slide_objective(<< Unwrap(slide_got).path[1],
                                    Unwrap(slide_got).path[Len(slid_path)] >>)
    /\ \E a \in Unwrap(start_window).start..(slid_second - 1),
          b \in slid_penultimate..(Len(route) - 1) : << a, b >> \notin slide_pairs

(* -------------------------------- C27 --------------------------------- *)

\* the cumulative distance Slide recomputes for a path: planar in slide of
\* free.rs (free.rs:274-278), Vincenty in from_slide_result (result.rs:87)
slide_cum_distance(path) ==
    IF pc = "slide returned" THEN flat_cum_distance(route, path)
    ELSE calculate_distance(route, path)

\* the path Slide returned is the one it was applied to except for the first
\* and the last turnpoint, and its distance is recomputed from the new path
slide_moves_ends_only ==
    (slide_returned /\ IsSome(slide_got)) =>
        LET got == Unwrap(slide_got)
        IN  /\ Len(got.path) = Len(slid_path)
            /\ \A i \in 2..(Len(slid_path) - 1) : got.path[i] = slid_path[i]
            /\ got.distance = slide_cum_distance(got.path)

\* a call of Slide leaves the result it is applied to as it was
slide_keeps_input == best_valid' = best_valid

\* C27: the path Slide returns is as long as the path it was applied to and
\* differs from it at most in the first and the last turnpoint; the result
\* it was applied to is not changed; and the returned distance is the
\* cumulative distance of the new path, not the stored distance of the old.
C27_SlideFrame == []slide_moves_ends_only /\ [][slide_keeps_input]_vars

\* optimize_by_sliding moved both ends of a path of four turnpoints whose
\* stored distance is neither the old path's length nor the new one's
C27_Witness ==
    /\ pc = "optimize_by_sliding returned"
    /\ IsSome(slide_got)
    /\ Len(slid_path) >= 4
    /\ Unwrap(slide_got).path[1] # slid_path[1]
    /\ Unwrap(slide_got).path[Len(slid_path)] # slid_path[Len(slid_path)]
    /\ slid_path[2] # slid_path[3]
    /\ Unwrap(slide_got).distance # Unwrap(best_valid).distance
    /\ Unwrap(best_valid).distance # calculate_distance(route, slid_path)

(* -------------------------------- C28 --------------------------------- *)

\* every candidate of the worklist is strictly above the best distance
candidates_above_best ==
    \A i \in 1..Len(start_candidates) :
        start_candidates[i].distance > Unwrap(best_valid).distance

\* a pass of the loop does not lower the best distance
best_not_lowered ==
    pc = "loop" => Unwrap(best_valid').distance >= Unwrap(best_valid).distance

\* C28: in the main loop of optimize the best distance never decreases, and
\* whenever an iteration begins every candidate still in the worklist has a
\* distance strictly greater than the best distance.
C28_BestMonotone ==
    /\ [](pc = "loop" => candidates_above_best)
    /\ [][best_not_lowered]_vars

\* the loop has resolved a candidate into a new best distance, candidates are
\* left, and a cell that gave a candidate at first is no longer above the best
C28_Witness ==
    /\ pc = "loop"
    /\ iterations >= 2
    /\ start_candidates # << >>
    /\ Unwrap(best_valid).distance = cache[Len(cache)].distance
    /\ Unwrap(best_valid).distance > Unwrap(find_best_valid_solution(graph, route)).distance
    /\ \E j \in 0..(Len(route) - 1) :
           /\ At(graph[legs], j).distance
                  > Unwrap(find_best_valid_solution(graph, route)).distance
           /\ At(graph[legs], j).distance <= Unwrap(best_valid).distance

(* -------------------------------- C29 --------------------------------- *)

\* the path that repeats the last fix of the route
last_fix_repeated == [ i \in 1..(legs + 1) |-> Len(route) - 1 ]

\* the top-layer cells of a graph whose paths keep the altitude rule
compliant_ends(g) ==
    LET results == cell_results(g)
    IN  { i \in 0..(Len(route) - 1) : valid_result(route, results[i + 1]) }

\* C29: for a non-empty route, in the unconstrained graph and in the graph of
\* every start fix the top-layer cell of the last fix reads back as the path
\* that repeats the last fix, so a cell that keeps the altitude rule always
\* exists, find_best_valid_solution returns a result and its unwrap does not
\* fail.
C29_AlwaysAResult ==
    (pc # "start" /\ route # << >>) =>
        /\ pc # "panic"
        /\ \A g \in built_graphs :
               /\ cell_path(g, Len(route) - 1) = last_fix_repeated
               /\ (Len(route) - 1) \in compliant_ends(g)
               /\ IsSome(find_best_valid_solution(g, route))

\* a route of several fixes and a graph in which the cell of the last fix is
\* the only one that keeps the altitude rule
C29_Witness ==
    /\ pc = "seeded"
    /\ Len(route) >= 3
    /\ legs >= 2
    /\ \E g \in built_graphs : compliant_ends(g) = { Len(route) - 1 }

(* -------------------------------- C30 --------------------------------- *)

\* The inputs of the runs checked for termination: every track, on which the
\* loop runs longest, and the routes of the exhaustive family short of its
\* longest ones
LiveInputs ==
    { [route |-> r, legs |-> l] :
        r \in UNION { [1..n -> PointFixes] : n \in 0..(MaxN - 1) }, l \in 1..MaxLegs }
    \cup TrackInputs \cup ResolvedInputs \cup DegenerateInputs \cup DropInputs
    \cup PairedInputs

\* Init over LiveInputs
LiveInit ==
    /\ \E in \in LiveInputs : route = in.route /\ legs = in.legs
    /\ break_at \in BreakAts
    /\ pc = "start"
    /\ dist_matrix = << >>
    /\ graph = << >>
    /\ best_valid = None
    /\ start_candidates = << >>
    /\ start_window = None
    /\ minimum_stop_index = None
    /\ cache = << >>
    /\ iterations = 1
    /\ result = None

\* a pass of the main loop
LoopStep == SkipCandidate \/ CachedCandidate \/ BreakAt \/ ResolveCandidate

\* A pass is possible exactly when the loop has a candidate left: loop_body
\* takes one of the four branches for every candidate.
pass_enabled == pc = "loop" /\ start_candidates # << >>

\* optimize is one sequential call: in the loop, a pass is taken while a
\* candidate is left and the return is taken when none is.  The last
\* conjunct is WF_vars(LoopStep) with ENABLED <<LoopStep>>_vars written as
\* the state predicate it is equal to.
LiveSpec ==
    /\ LiveInit
    /\ [][Next]_vars
    /\ WF_vars(FinalReturn)
    /\ (<>[]pass_enabled => []<><<LoopStep>>_vars)

\* a pass of the loop leaves fewer candidates than it found
worklist_shrinks ==
    (pc = "loop" /\ start_candidates # << >>) =>
        Len(start_candidates') < Len(start_candidates)

\* C30: once the main loop of optimize is entered, every pass takes at least
\* one candidate off the worklist and none is added, so the loop ends after at
\* most as many passes as there were candidates, and optimize returns a
\* result.
C30_LoopTerminates ==
    /\ [][worklist_shrinks]_vars
    /\ (pc = "loop") ~> returned

\* optimize returned after the loop had searched the graphs of two candidates
\* or more and had ruled out another from the cache
C30_Witness ==
    /\ returned
    /\ IsSome(minimum_stop_index)
    /\ iterations >= 3
    /\ pruned_count >= 1
    /\ start_candidates = << >>

====
